---- MODULE Spec2Model ----
(***************************************************************************)
(* Model of backtest_script.py: the rebalance scheduler                     *)
(* (get_rebalance_dates) and the rebalancing / valuation loop               *)
(* (run_backtest).                                                          *)
(*                                                                         *)
(* Dates are day numbers counted from 2020-01-01 (day 0, a Wednesday).      *)
(* Floating-point quantities (weights, prices, shares, values) are exact    *)
(* rationals [n, d] in lowest terms; the float NaN that numpy's 0.0/0.0     *)
(* yields is the value NaN.                                                 *)
(***************************************************************************)
EXTENDS Integers, Sequences, FiniteSets, TLC

VARIABLES
    args,                    \* the parsed command line (immutable)
    pc,                      \* position in run_backtest
    rebalance_dates,         \* list returned by get_rebalance_dates
    i,                       \* index (1-based) of the rebalance being processed
    portfolio_history,       \* list of snapshots
    current_portfolio_value,
    current_holdings,        \* ticker -> [shares, price_at_buy, weight]
    df_fundamental,          \* local of the loop body, while it is read (lines 164-204)
    selected_tickers,        \* local of the loop body
    target_weights,          \* local of the loop body: ticker -> weight
    daily_prices_df,         \* raw price rows of the period revealed so far
    sim_date,                \* next business day of the inner loop
    output_written,          \* a result file was written
    skipped,                 \* observer: indices of the rebalances skipped at line 174
    entry_value,             \* observer: portfolio value when the holding period began
    last_step,               \* observer: the branch the last step took
    prices_on_rebalance_date, \* local of the loop body (line 266), while it is read
    prior_state,             \* observer: holdings and value when the rebalance began
    rebalance_outcome        \* observer: the branch the current rebalance ended in

vars == <<args, pc, rebalance_dates, i, portfolio_history, current_portfolio_value,
          current_holdings, df_fundamental, selected_tickers, target_weights,
          daily_prices_df, sim_date, output_written, skipped, entry_value, last_step,
          prices_on_rebalance_date, prior_state, rebalance_outcome>>

\* None / NaN-as-missing / an absent row
NULL == [null |-> TRUE]

(***************************************************************************)
(* Exact arithmetic standing for float64.                                   *)
(***************************************************************************)
Abs(x) == IF x < 0 THEN -x ELSE x

RECURSIVE GCD(_, _)
GCD(a, b) == IF b = 0 THEN a ELSE GCD(b, a % b)

NaN == [n |-> 0, d |-> 0]

IsNaN(x) == x.d = 0

Rat(a, b) ==
    IF b = 0 THEN NaN
    ELSE LET g == GCD(Abs(a), Abs(b))
             s == IF b < 0 THEN -1 ELSE 1
         IN  [n |-> (s * a) \div g, d |-> (s * b) \div g]

Int2Rat(k) == [n |-> k, d |-> 1]

Zero == Int2Rat(0)
One  == Int2Rat(1)

Add(x, y) == IF IsNaN(x) \/ IsNaN(y) THEN NaN ELSE Rat(x.n * y.d + y.n * x.d, x.d * y.d)

Mul(x, y) == IF IsNaN(x) \/ IsNaN(y) THEN NaN ELSE Rat(x.n * y.n, x.d * y.d)

\* float division: 0.0/0.0 is NaN (numpy warns, does not raise); a nonzero
\* numerator over zero does not occur (prices and weight sums are checked below)
Div(x, y) == IF IsNaN(x) \/ IsNaN(y) THEN NaN ELSE Rat(x.n * y.d, x.d * y.n)

\* comparisons with NaN are false
Leq(x, y) == ~IsNaN(x) /\ ~IsNaN(y) /\ x.n * y.d <= y.n * x.d
Lt(x, y)  == ~IsNaN(x) /\ ~IsNaN(y) /\ x.n * y.d < y.n * x.d

\* int(x) for x >= 0
Floor(x) == x.n \div x.d

RECURSIVE SumOver(_, _)
SumOver(f, S) ==
    IF S = {} THEN Zero
    ELSE LET t == CHOOSE u \in S : TRUE
         IN  Add(f[t], SumOver(f, S \ {t}))

Range(s) == {s[k] : k \in DOMAIN s}

RECURSIVE SortedSeq(_)
SortedSeq(S) ==
    IF S = {} THEN <<>>
    ELSE LET m == CHOOSE x \in S : \A y \in S : x <= y
         IN  <<m>> \o SortedSeq(S \ {m})

(***************************************************************************)
(* Calendar: the months from January 2020 on.                               *)
(***************************************************************************)
MonthLengths == <<31, 29, 31, 30, 31, 30, 31, 31, 30, 31, 30, 31, 31, 28>>

RECURSIVE MonthStartDay(_)
MonthStartDay(m) == IF m = 1 THEN 0 ELSE MonthStartDay(m - 1) + MonthLengths[m - 1]

\* 0 = Monday ... 6 = Sunday
Weekday(d) == (d + 2) % 7

IsBusinessDay(d) == Weekday(d) < 5

\* first Monday-to-Friday day at or after d
FirstBDay(d) == IF Weekday(d) = 5 THEN d + 2 ELSE IF Weekday(d) = 6 THEN d + 1 ELSE d

\* pd.date_range(a, b, freq='B')
BusinessDays(a, b) == {d \in a..b : IsBusinessDay(d)}

\* the months whose first business day is on offset for freq
\* ('BMS' every month, 'BQS' January/April/July/October, 'BYS' January)
PeriodMonths(freq) ==
    {m \in DOMAIN MonthLengths :
        \/ freq = "monthly"
        \/ freq = "quarterly" /\ (m - 1) % 3 = 0
        \/ freq = "annually" /\ (m - 1) % 12 = 0}

\* pd.date_range(start, end, freq=...): the on-offset dates of [start, end], ascending
DateRange(start, end, freq) ==
    SortedSeq({d \in {FirstBDay(MonthStartDay(m)) : m \in PeriodMonths(freq)} :
                  start <= d /\ d <= end})

\* a scheduler that starts at the period containing start and never filters
GetRebalanceDatesNoFilter(start, end, freq) ==
    SortedSeq({d \in {FirstBDay(MonthStartDay(m)) : m \in PeriodMonths(freq)} :
                  start - 31 <= d /\ d <= end})

GetRebalanceDates(start, end, freq) ==
    LET all  == DateRange(start, end, freq)
        ge   == SelectSeq(all, LAMBDA d : d >= start)
    IN  SelectSeq(ge, LAMBDA d : d <= end)

(***************************************************************************)
(* Bounds of the model.                                                     *)
(***************************************************************************)
\* the price provider may omit rows or prices only on the first MaxEarly
\* business days of a holding period; afterwards every row is complete
MaxEarly == 3

(***************************************************************************)
(* External collaborators: what the providers can return.                   *)
(***************************************************************************)
EmptyFn == [x \in {} |-> NULL]

\* closing price of a ticker on a day (the market data behind
\* obter_dados_historicos_yf); it repeats every four days
PriceOf(t, d) ==
    LET k == ((d + 3) % 4) + 1
    IN  CASE t = "A" -> Int2Rat(<<10, 11, 11, 12>>[k])
          [] t = "B" -> Int2Rat(<<20, 20, 25, 25>>[k])
          [] t = "C" -> Int2Rat(<<40, 50, 40, 50>>[k])
          [] OTHER   -> Int2Rat(8)

\* scores the scoring functions can give a ticker
PiotroskiScores == {3, 6}
QuantValueScores == {Rat(1, 2), One}

RECURSIVE Tables(_)
\* obter_dados_fundamentalistas_detalhados_br(universe) with both score columns
\* added (lines 164-188): one row per ticker the provider knows, in universe order
Tables(universe) ==
    IF universe = <<>> THEN {<<>>}
    ELSE LET rest == Tables(Tail(universe))
         IN  rest \cup
             {<<[ticker |-> Head(universe), Piotroski_F_Score |-> f,
                 Quant_Value_Score |-> q]>> \o r :
                 f \in PiotroskiScores, q \in QuantValueScores, r \in rest}

\* prices_on_rebalance_date (line 266): per column the first valid price of the
\* lookup window, NULL for a column that is absent or wholly null
EntryPriceTables(universe, d) ==
    [Range(universe) -> {NULL}] \cup
    {px \in [Range(universe) -> {NULL} \cup {PriceOf(t, d) : t \in Range(universe)}] :
        \A t \in Range(universe) : px[t] \in {NULL, PriceOf(t, d)}}

\* position of business day d in the holding period that starts at first
DayIndex(first, d) == Cardinality(BusinessDays(first, d))

\* the row the price provider has for day d of the period: none, or a price or
\* a null per held ticker
DayRows(held, first, d) ==
    IF DayIndex(first, d) <= MaxEarly
    THEN {NULL} \cup {row \in [held -> {NULL} \cup {PriceOf(t, d) : t \in held}] :
                         \A t \in held : row[t] \in {NULL, PriceOf(t, d)}}
    ELSE {[t \in held |-> PriceOf(t, d)]}

(***************************************************************************)
(* Asset selection, lines 192-204.                                          *)
(***************************************************************************)
\* lines 192-196: the two filters, each skipped when its minimum is 0
Eligible(df, a) ==
    SelectSeq(df, LAMBDA r :
        /\ (a.min_piotroski_score > 0 => r.Piotroski_F_Score >= a.min_piotroski_score)
        /\ (Lt(Zero, a.min_quant_value_score)
               => Leq(a.min_quant_value_score, r.Quant_Value_Score)))

RECURSIVE Orderings(_)
\* the orders a sort can put a set of rows in
Orderings(S) ==
    IF S = {} THEN {<<>>}
    ELSE UNION {{<<x>> \o q : q \in Orderings(S \ {x})} : x \in S}

\* a sort that leaves out ascending=False
SortValuesAsc(df) ==
    {s \in Orderings(Range(df)) :
        \A j \in 1..Len(df) - 1 : Leq(s[j].Quant_Value_Score, s[j + 1].Quant_Value_Score)}

\* line 199: df.sort_values(by=Quant_Value_Score, ascending=False); the default
\* sort is not stable, so any order of equal scores can come out
SortValuesDesc(df) ==
    {s \in Orderings(Range(df)) :
        \A j \in 1..Len(df) - 1 : Leq(s[j + 1].Quant_Value_Score, s[j].Quant_Value_Score)}

\* df.head(n) for n >= 0
HeadRows(s, n) == SubSeq(s, 1, IF n < Len(s) THEN n ELSE Len(s))

\* lines 200-204
SelectedOf(sorted, a) ==
    LET top == IF a.top_n_quant_value > 0 THEN HeadRows(sorted, a.top_n_quant_value)
               ELSE sorted
        cut == HeadRows(top, a.max_selected_assets)
    IN  [k \in 1..Len(cut) |-> cut[k].ticker]

(***************************************************************************)
(* Allocation, lines 215-245 and 273-278.                                   *)
(***************************************************************************)
\* a shrink that keeps the last tickers of the list instead of the first
ShrinkKeepLast(tickers, min_alloc) ==
    IF Lt(One, Mul(min_alloc, Int2Rat(Len(tickers))))
    THEN LET k == Floor(Div(One, min_alloc))
         IN  SubSeq(tickers, Len(tickers) - k + 1, Len(tickers))
    ELSE tickers

\* a shrink that keeps one ticker fewer than the minimum allows
ShrinkOneFewer(tickers, min_alloc) ==
    IF Lt(One, Mul(min_alloc, Int2Rat(Len(tickers))))
    THEN HeadRows(tickers, Floor(Div(One, min_alloc)) - 1)
    ELSE tickers

\* lines 229-233
ShrinkForMinAlloc(tickers, min_alloc) ==
    IF Lt(One, Mul(min_alloc, Int2Rat(Len(tickers))))
    THEN HeadRows(tickers, Floor(Div(One, min_alloc)))
    ELSE tickers

\* np.clip(x, lo, hi)
Clip(x, lo, hi) ==
    LET m == IF Lt(x, lo) THEN lo ELSE x
    IN  IF Lt(hi, m) THEN hi ELSE m

\* a renormalisation that divides by the number of tickers, not by the sum
ComputeWeightsDivByCount(tickers, min_alloc, max_alloc) ==
    LET weight_per_asset == Rat(1, Len(tickers))
    IN  [t \in Range(tickers) |->
            Div(Clip(weight_per_asset, min_alloc, max_alloc), Int2Rat(Len(tickers)))]

\* weights that are clamped and left as they are, without the renormalisation
ComputeWeightsNoRenormalise(tickers, min_alloc, max_alloc) ==
    [t \in Range(tickers) |-> Clip(Rat(1, Len(tickers)), min_alloc, max_alloc)]

\* lines 239-245 (and 275-278): equal weight, clamped, renormalised
ComputeWeights(tickers, min_alloc, max_alloc) ==
    LET weight_per_asset == Rat(1, Len(tickers))
        final_weights_raw == [t \in Range(tickers) |->
                                 Clip(weight_per_asset, min_alloc, max_alloc)]
        sum_weights == SumOver(final_weights_raw, Range(tickers))
    IN  [t \in Range(tickers) |-> Div(final_weights_raw[t], sum_weights)]

(***************************************************************************)
(* Valuation helpers, lines 318 and 343-361.                                *)
(***************************************************************************)
\* daily_prices_df.ffill() read at (d, t): the last valid price at or before d
Ffill(df, d, t) ==
    LET known == {e \in DOMAIN df : e <= d /\ df[e][t] # NULL}
    IN  IF known = {} THEN NULL
        ELSE df[CHOOSE e \in known : \A f \in known : f <= e][t]

\* a fallback to the entry price of the holding instead of the last snapshot
PriceForDayEntryFallback(df, d, t, history) ==
    IF Ffill(df, d, t) # NULL THEN Ffill(df, d, t)
    ELSE IF history # <<>> /\ t \in DOMAIN history[Len(history)].holdings
         THEN current_holdings[t].price_at_buy
         ELSE NULL

\* lines 344-361: the price used for a held ticker on day d, NULL if none
PriceForDay(df, d, t, history) ==
    IF Ffill(df, d, t) # NULL THEN Ffill(df, d, t)
    ELSE IF /\ history # <<>>
            /\ t \in DOMAIN history[Len(history)].holdings
            /\ "current_price" \in DOMAIN history[Len(history)].holdings[t]
         THEN history[Len(history)].holdings[t].current_price
         ELSE NULL

\* a window that runs through the next rebalance date itself
EndSimPeriodInclusive ==
    IF i + 1 <= Len(rebalance_dates) THEN rebalance_dates[i + 1] ELSE args.end_date_backtest

\* line 302 / 304
EndSimPeriod ==
    IF i + 1 <= Len(rebalance_dates) THEN rebalance_dates[i + 1] - 1 ELSE args.end_date_backtest

\* the next date of pd.date_range(..., freq='B')
NextBDay(d) == FirstBDay(d + 1)

\* a snapshot dated at the rebalance of its holding period, not at its day
SnapshotDatedAtRebalance(d, v, h) ==
    [date |-> IF i \in DOMAIN rebalance_dates THEN rebalance_dates[i] ELSE d,
     portfolio_value |-> v, holdings |-> h]

\* the record of lines 169-173, 327-331, 333-337, 369-373 and 376-380
Snapshot(d, v, h) == [date |-> d, portfolio_value |-> v, holdings |-> h]

(***************************************************************************)
(* The run configurations explored.                                         *)
(***************************************************************************)
\* (start, end, frequency) of the runs: 2020-01-20..02-06 (one rebalance,
\* 2020-02-03), 2020-02-03..03-03 (two: 02-03 and 03-02), 2020-02-04..02-20
\* (none), 2020-03-26..04-03 quarterly (04-01), 2020-12-26..2021-01-03
\* annually (2021-01-01); Configs adds 2020-02-03..04-02 with one ticker
\* (three: 02-03, 03-02 and 04-01)
Runs ==
    {<<19, 36, "monthly">>, <<33, 62, "monthly">>, <<34, 50, "monthly">>,
     <<85, 93, "quarterly">>, <<360, 368, "annually">>}

\* (min_alloc_asset, max_alloc_asset) pairs: unconstrained, the defaults of
\* lines 57-58, a minimum above one half, and both zero
AllocBounds ==
    {<<Zero, One>>, <<Rat(1, 20), Rat(1, 5)>>, <<Rat(3, 5), One>>, <<Zero, Zero>>}

MakeArgs(run, universe, minp, minq, topn, maxn, bnd) ==
    [start_date_backtest |-> run[1], end_date_backtest |-> run[2],
     rebalance_frequency |-> run[3], universe_tickers |-> universe,
     min_piotroski_score |-> minp, min_quant_value_score |-> minq,
     top_n_quant_value |-> topn, max_selected_assets |-> maxn,
     min_alloc_asset |-> bnd[1], max_alloc_asset |-> bnd[2],
     initial_portfolio_value |-> Int2Rat(1000)]

Configs ==
    {MakeArgs(run, <<"A", "B">>, 6, Zero, 0, 10, bnd) :
        run \in Runs \ {<<33, 62, "monthly">>}, bnd \in AllocBounds}
    \cup {MakeArgs(<<33, 62, "monthly">>, <<"A", "B">>, 6, Zero, 0, 10, bnd) :
             bnd \in {<<Zero, One>>, <<Rat(3, 5), One>>}}
    \cup {MakeArgs(<<33, 92, "monthly">>, <<"A">>, 6, Zero, 0, 10, <<Zero, One>>)}

(***************************************************************************)
(* run_backtest.                                                            *)
(***************************************************************************)
\* the state at line 125, and lines 142-146
Fresh ==
    /\ portfolio_history = <<>>
    /\ current_portfolio_value = args.initial_portfolio_value
    /\ current_holdings = EmptyFn
    /\ df_fundamental = <<>>
    /\ target_weights = EmptyFn
    /\ daily_prices_df = EmptyFn
    /\ sim_date = 0
    /\ output_written = FALSE
    /\ skipped = {}
    /\ entry_value = args.initial_portfolio_value
    /\ last_step = "init"
    /\ prices_on_rebalance_date = EmptyFn
    /\ prior_state = [holdings |-> EmptyFn, value |-> args.initial_portfolio_value]
    /\ rebalance_outcome = "pending"

Init ==
    /\ args \in Configs
    /\ pc = "schedule"
    /\ rebalance_dates = <<>>
    /\ i = 0
    /\ selected_tickers = <<>>
    /\ Fresh

\* a start of the run without the early return of line 138
ScheduleNoEarlyReturn ==
    /\ pc = "schedule"
    /\ rebalance_dates' = GetRebalanceDates(args.start_date_backtest,
                              args.end_date_backtest, args.rebalance_frequency)
    /\ IF rebalance_dates' = <<>>
       THEN pc' = "save" /\ i' = i /\ last_step' = "no_dates"
       ELSE pc' = "rebalance" /\ i' = 1 /\ last_step' = "scheduled"
    /\ UNCHANGED <<args, portfolio_history, current_portfolio_value, current_holdings,
                   df_fundamental, selected_tickers, target_weights, daily_prices_df,
                   sim_date, output_written, skipped, entry_value,
                   prices_on_rebalance_date, prior_state, rebalance_outcome>>

\* lines 135-146
Schedule ==
    /\ pc = "schedule"
    /\ rebalance_dates' = GetRebalanceDates(args.start_date_backtest,
                              args.end_date_backtest, args.rebalance_frequency)
    /\ IF rebalance_dates' = <<>>
       THEN pc' = "done" /\ i' = i /\ last_step' = "no_dates"
       ELSE pc' = "rebalance" /\ i' = 1 /\ last_step' = "scheduled"
    /\ UNCHANGED <<args, portfolio_history, current_portfolio_value, current_holdings,
                   df_fundamental, selected_tickers, target_weights, daily_prices_df,
                   sim_date, output_written, skipped, entry_value,
                   prices_on_rebalance_date, prior_state, rebalance_outcome>>

\* the for statement of line 149 moving on from rebalance i
AfterRebalance == IF i + 1 <= Len(rebalance_dates) THEN "rebalance" ELSE "save"

\* lines 149-204: fetch the fundamentals, score, filter, rank
FetchAndSelect ==
    /\ pc = "rebalance"
    /\ \E df \in Tables(args.universe_tickers) :
         IF df = <<>>
         THEN \* lines 165-174
              /\ portfolio_history' =
                     IF DOMAIN current_holdings # {}
                     THEN Append(portfolio_history,
                                 Snapshot(rebalance_dates[i], current_portfolio_value,
                                          current_holdings))
                     ELSE portfolio_history
              /\ skipped' = skipped \cup {i}
              /\ i' = i + 1
              /\ pc' = AfterRebalance
              /\ last_step' = "skip_rebalance"
              /\ rebalance_outcome' = "skip_rebalance"
              /\ UNCHANGED <<df_fundamental, selected_tickers>>
         ELSE \E sorted \in SortValuesDesc(Eligible(df, args)) :
              /\ df_fundamental' = df
              /\ selected_tickers' = SelectedOf(sorted, args)
              /\ pc' = "allocate"
              /\ last_step' = "selected"
              /\ rebalance_outcome' = "pending"
              /\ UNCHANGED <<portfolio_history, skipped, i>>
    /\ prior_state' = [holdings |-> current_holdings, value |-> current_portfolio_value]
    /\ UNCHANGED <<args, rebalance_dates, current_portfolio_value, current_holdings,
                   target_weights, daily_prices_df, sim_date, output_written,
                   entry_value, prices_on_rebalance_date>>

\* an allocation that liquidates the positions when the selection is empty
AllocateEmptySelectionToCash ==
    /\ pc = "allocate"
    /\ IF selected_tickers = <<>>
       THEN \* no position survives
            /\ pc' = "begin_period"
            /\ last_step' = "empty_selection"
            /\ current_holdings' = EmptyFn
            /\ UNCHANGED <<selected_tickers, target_weights>>
       ELSE LET shrunk == ShrinkForMinAlloc(selected_tickers, args.min_alloc_asset)
            IN  /\ selected_tickers' = shrunk
                /\ IF shrunk = <<>>
                   THEN                         /\ target_weights' = EmptyFn
                        /\ current_holdings' = EmptyFn
                        /\ pc' = "begin_period"
                        /\ last_step' = "none_after_shrink"
                   ELSE /\ target_weights' = ComputeWeights(shrunk, args.min_alloc_asset,
                                                            args.max_alloc_asset)
                        /\ UNCHANGED current_holdings
                        /\ pc' = "execute"
                        /\ last_step' = IF shrunk = selected_tickers THEN "weights"
                                        ELSE "weights_shrunk"
    /\ df_fundamental' = <<>>
    /\ rebalance_outcome' = IF pc' = "execute" THEN rebalance_outcome ELSE last_step'
    /\ UNCHANGED <<args, rebalance_dates, i, portfolio_history, current_portfolio_value,
                   daily_prices_df, sim_date, output_written, skipped, entry_value,
                   prices_on_rebalance_date, prior_state>>

\* lines 206-247: shrink for the minimum allocation, compute the target weights
Allocate ==
    /\ pc = "allocate"
    /\ IF selected_tickers = <<>>
       THEN \* lines 206-210
            /\ pc' = "begin_period"
            /\ last_step' = "empty_selection"
            /\ UNCHANGED <<selected_tickers, target_weights, current_holdings>>
       ELSE LET shrunk == ShrinkForMinAlloc(selected_tickers, args.min_alloc_asset)
            IN  /\ selected_tickers' = shrunk
                /\ IF shrunk = <<>>
                   THEN \* lines 235-237
                        /\ target_weights' = EmptyFn
                        /\ current_holdings' = EmptyFn
                        /\ pc' = "begin_period"
                        /\ last_step' = "none_after_shrink"
                   ELSE /\ target_weights' = ComputeWeights(shrunk, args.min_alloc_asset,
                                                            args.max_alloc_asset)
                        /\ UNCHANGED current_holdings
                        /\ pc' = "execute"
                        /\ last_step' = IF shrunk = selected_tickers THEN "weights"
                                        ELSE "weights_shrunk"
    /\ df_fundamental' = <<>>
    /\ rebalance_outcome' = IF pc' = "execute" THEN rebalance_outcome ELSE last_step'
    /\ UNCHANGED <<args, rebalance_dates, i, portfolio_history, current_portfolio_value,
                   daily_prices_df, sim_date, output_written, skipped, entry_value,
                   prices_on_rebalance_date, prior_state>>

\* a lookup check that never reports a failed lookup
NoUsablePriceNever(px) == FALSE

\* line 261: the lookup returned an empty table or only nulls
NoUsablePrice(px) == \A t \in DOMAIN px : px[t] = NULL

\* a drop that takes every priced column of the table, selected or not
DropMissingTakeAllPriced(tickers, px) ==
    SelectSeq(args.universe_tickers, LAMBDA t : px[t] # NULL)

\* lines 268-273: the selected tickers that have an entry price, in order
DropMissing(tickers, px) == SelectSeq(tickers, LAMBDA t : px[t] # NULL)

\* an installation that keeps the old positions the new weights do not name
NewHoldingsMerged(weights, prices, value) ==
    [t \in DOMAIN weights \cup DOMAIN current_holdings |->
        IF t \in DOMAIN weights
        THEN [shares |-> Div(Mul(value, weights[t]), prices[t]),
              price_at_buy |-> prices[t], weight |-> weights[t]]
        ELSE current_holdings[t]]

\* lines 285-293
NewHoldings(weights, prices, value) ==
    [t \in DOMAIN weights |->
        [shares |-> Div(Mul(value, weights[t]), prices[t]),
         price_at_buy |-> prices[t], weight |-> weights[t]]]

\* lines 255-297: look the entry prices up and replace the holdings
Execute ==
    /\ pc = "execute"
    /\ \E px \in EntryPriceTables(args.universe_tickers, rebalance_dates[i]) :
         /\ prices_on_rebalance_date' = px
         /\ IF NoUsablePrice(px)
            THEN \* lines 261-263
              /\ last_step' = "no_entry_prices"
              /\ UNCHANGED <<selected_tickers, target_weights, current_holdings>>
            ELSE LET priced == DropMissing(selected_tickers, px)
                  weights == IF priced = selected_tickers THEN target_weights
                             ELSE IF priced # <<>>
                                  THEN ComputeWeights(priced, args.min_alloc_asset,
                                                      args.max_alloc_asset)
                                  ELSE EmptyFn
              IN  /\ selected_tickers' = priced
                  /\ target_weights' = weights
                  /\ current_holdings' =
                         NewHoldings(weights, px, current_portfolio_value)
                  /\ last_step' = IF priced = <<>> THEN "to_cash"
                                  ELSE IF priced = selected_tickers THEN "installed"
                                  ELSE "installed_partial"
    /\ pc' = "begin_period"
    /\ rebalance_outcome' = last_step'
    /\ UNCHANGED <<args, rebalance_dates, i, portfolio_history, current_portfolio_value,
                   df_fundamental, daily_prices_df, sim_date, output_written, skipped,
                   entry_value, prior_state>>

\* lines 299-318: the window of the holding period; the price table is fetched
BeginPeriod ==
    /\ pc = "begin_period"
    /\ sim_date' = FirstBDay(rebalance_dates[i])
    /\ daily_prices_df' = EmptyFn
    /\ pc' = "simulate"
    /\ entry_value' = current_portfolio_value
    /\ prices_on_rebalance_date' = EmptyFn
    /\ UNCHANGED <<args, rebalance_dates, i, portfolio_history, current_portfolio_value,
                   current_holdings, df_fundamental, selected_tickers, target_weights,
                   output_written, skipped, last_step, prior_state, rebalance_outcome>>

\* lines 340-362 on a day with a row: value and holdings detail, or NULL when
\* some held ticker has no price
DayDetail(df, d) ==
    [t \in DOMAIN current_holdings |->
        LET p == PriceForDay(df, d, t, portfolio_history)
        IN  IF p = NULL THEN NULL
            ELSE [shares |-> current_holdings[t].shares, current_price |-> p,
                  value |-> Mul(current_holdings[t].shares, p)]]

\* a day value that adds up whatever tickers could be priced
DayValuePartialSum(detail, history, value) ==
    LET priced == {t \in DOMAIN detail : detail[t] # NULL}
    IN  SumOver([t \in priced |-> detail[t].value], priced)

\* lines 340-367: the value recorded on a day with a row: the sum of the
\* positions when every held ticker has a price, else the last recorded value
DayValue(detail, history, value) ==
    IF \A t \in DOMAIN detail : detail[t] # NULL
    THEN SumOver([t \in DOMAIN detail |-> detail[t].value], DOMAIN detail)
    ELSE IF history # <<>> THEN history[Len(history)].portfolio_value
         ELSE value

\* a data gap that records nothing for the day
NoRowHistoryNoAppend(history, d, value, holdings) == history

\* a data gap that overwrites the last snapshot instead of appending
NoRowHistoryOverwrite(history, d, value, holdings) ==
    IF history # <<>>
    THEN [history EXCEPT ![Len(history)] =
              Snapshot(d, history[Len(history)].portfolio_value, holdings)]
    ELSE Append(history, Snapshot(d, value, holdings))

\* a data gap that records the value the holding period began with
NoRowHistoryEntryValue(history, d, value, holdings) ==
    Append(history, Snapshot(d, entry_value, holdings))

\* lines 324-337: the history after a business day that has no price row
NoRowHistory(history, d, value, holdings) ==
    IF history # <<>> /\ history[Len(history)].date < d
    THEN Append(history, Snapshot(d, history[Len(history)].portfolio_value, holdings))
    ELSE IF history = <<>>
         THEN Append(history, Snapshot(d, value, holdings))
         ELSE history

\* lines 321-373: one business day of a period with holdings
SimulateDay ==
    /\ pc = "simulate"
    /\ sim_date <= EndSimPeriod
    /\ DOMAIN current_holdings # {}
    /\ \E row \in DayRows(DOMAIN current_holdings, rebalance_dates[i], sim_date) :
         IF row = NULL
         THEN \* lines 322-338: sim_date not in daily_prices_df.index
              /\ portfolio_history' = NoRowHistory(portfolio_history, sim_date,
                                             current_portfolio_value, current_holdings)
              /\ last_step' = "day_no_row"
              /\ UNCHANGED <<current_portfolio_value, daily_prices_df>>
         ELSE LET df == (sim_date :> row) @@ daily_prices_df
                  detail == DayDetail(df, sim_date)
                  valid_prices_for_day == \A t \in DOMAIN detail : detail[t] # NULL
                  value == DayValue(detail, portfolio_history, current_portfolio_value)
              IN  /\ daily_prices_df' = df
                  /\ current_portfolio_value' = value
                  /\ portfolio_history' =
                         Append(portfolio_history,
                                Snapshot(sim_date, value,
                                         IF valid_prices_for_day THEN detail
                                         ELSE current_holdings))
                  /\ last_step' = IF valid_prices_for_day THEN "day_valued"
                                  ELSE "day_invalid"
    /\ sim_date' = NextBDay(sim_date)
    /\ UNCHANGED <<args, pc, rebalance_dates, i, current_holdings, df_fundamental,
                   selected_tickers, target_weights, output_written, skipped,
                   entry_value, prices_on_rebalance_date, prior_state, rebalance_outcome>>

\* a cash day that records the initial value instead of the running one
CashDayInitialValue ==
    /\ pc = "simulate"
    /\ sim_date <= EndSimPeriod
    /\ DOMAIN current_holdings = {}
    /\ portfolio_history' = Append(portfolio_history,
                                   Snapshot(sim_date, args.initial_portfolio_value, EmptyFn))
    /\ sim_date' = NextBDay(sim_date)
    /\ last_step' = "day_cash"
    /\ UNCHANGED <<args, pc, rebalance_dates, i, current_portfolio_value, current_holdings,
                   df_fundamental, selected_tickers, target_weights, daily_prices_df,
                   output_written, skipped, entry_value, prices_on_rebalance_date,
                   prior_state, rebalance_outcome>>

\* lines 374-380: one business day of a period in cash
CashDay ==
    /\ pc = "simulate"
    /\ sim_date <= EndSimPeriod
    /\ DOMAIN current_holdings = {}
    /\ portfolio_history' = Append(portfolio_history,
                                   Snapshot(sim_date, current_portfolio_value, EmptyFn))
    /\ sim_date' = NextBDay(sim_date)
    /\ last_step' = "day_cash"
    /\ UNCHANGED <<args, pc, rebalance_dates, i, current_portfolio_value, current_holdings,
                   df_fundamental, selected_tickers, target_weights, daily_prices_df,
                   output_written, skipped, entry_value, prices_on_rebalance_date,
                   prior_state, rebalance_outcome>>

\* line 382 and back to line 149
EndPeriod ==
    /\ pc = "simulate"
    /\ sim_date > EndSimPeriod
    /\ i' = i + 1
    /\ pc' = AfterRebalance
    /\ last_step' = "end_period"
    /\ UNCHANGED <<args, rebalance_dates, portfolio_history, current_portfolio_value,
                   current_holdings, df_fundamental, selected_tickers, target_weights,
                   daily_prices_df, sim_date, output_written, skipped, entry_value,
                   prices_on_rebalance_date, prior_state, rebalance_outcome>>

\* lines 384-398
Save ==
    /\ pc = "save"
    /\ output_written' = (portfolio_history # <<>>)
    /\ pc' = "done"
    /\ last_step' = "saved"
    /\ UNCHANGED <<args, rebalance_dates, i, portfolio_history, current_portfolio_value,
                   current_holdings, df_fundamental, selected_tickers, target_weights,
                   daily_prices_df, sim_date, skipped, entry_value,
                   prices_on_rebalance_date, prior_state, rebalance_outcome>>

Next ==
    \/ Schedule
    \/ FetchAndSelect
    \/ Allocate
    \/ Execute
    \/ BeginPeriod
    \/ SimulateDay
    \/ CashDay
    \/ EndPeriod
    \/ Save

Spec == Init /\ [][Next]_vars

(***************************************************************************)
(* get_rebalance_dates on its own: every start, end and frequency of a grid *)
(* of days around the period starts of 2020 and January 2021.               *)
(***************************************************************************)
SchedDays == (0..4) \cup (29..35) \cup (59..62) \cup (89..92) \cup (364..368) \cup (396..398)

InitSched ==
    /\ \E s \in SchedDays, e \in SchedDays,
          f \in {"monthly", "quarterly", "annually"} :
          args = MakeArgs(<<s, e, f>>, <<"A", "B">>, 0, Zero, 0, 10, <<Zero, One>>)
    /\ pc = "schedule"
    /\ rebalance_dates = <<>>
    /\ i = 0
    /\ selected_tickers = <<>>
    /\ Fresh

SpecSched == InitSched /\ [][Schedule]_vars

(***************************************************************************)
(* The selection step on its own: every fundamentals table over a universe  *)
(* of MaxRows tickers, under a grid of filter settings.                     *)
(***************************************************************************)
MaxRows == 3

AllTickers == <<"A", "B", "C", "D", "E", "F">>

InitSelect ==
    /\ \E minp \in {0, 6}, minq \in {Zero, Rat(1, 2), One}, topn \in 0..2,
          maxn \in {0, 1, 2, 10} :
          args = MakeArgs(<<19, 36, "monthly">>, SubSeq(AllTickers, 1, MaxRows),
                          minp, minq, topn, maxn, <<Zero, One>>)
    /\ pc = "rebalance"
    /\ rebalance_dates = <<33>>
    /\ i = 1
    /\ selected_tickers = <<>>
    /\ Fresh

SpecSelect == InitSelect /\ [][FetchAndSelect]_vars

(***************************************************************************)
(* The allocation and execution steps on their own: every selection of up   *)
(* to MaxSelected tickers under every pair of bounds of a grid accepted by  *)
(* the validation of lines 85-88.                                           *)
(***************************************************************************)
MaxSelected == 4

BoundValues == {Zero, Rat(1, 5), Rat(3, 10), Rat(1, 2), One}

SelectionsOf(universe) ==
    UNION {{s \in [1..n -> Range(universe)] : \A j, k \in 1..n : j # k => s[j] # s[k]} :
              n \in 0..Len(universe)}

InitAlloc ==
    /\ \E lo \in BoundValues, hi \in BoundValues :
          /\ Leq(lo, hi)
          /\ args = MakeArgs(<<19, 36, "monthly">>, SubSeq(AllTickers, 1, MaxSelected),
                             0, Zero, 0, 10, <<lo, hi>>)
    /\ pc = "allocate"
    /\ rebalance_dates = <<33>>
    /\ i = 1
    /\ selected_tickers \in SelectionsOf(args.universe_tickers)
    /\ Fresh

NextAlloc == Allocate \/ Execute

SpecAlloc == InitAlloc /\ [][NextAlloc]_vars

(***************************************************************************)
(* Properties.                                                              *)
(***************************************************************************)
HistoryDates == {portfolio_history[k].date : k \in DOMAIN portfolio_history}

\* last day of the holding period of rebalance j
PeriodEndOf(j) ==
    IF j < Len(rebalance_dates) THEN rebalance_dates[j + 1] - 1
    ELSE args.end_date_backtest

PeriodDays(j) == BusinessDays(rebalance_dates[j], PeriodEndOf(j))

\* the loop has left rebalance j behind
PeriodComplete(j) == j < i \/ pc \in {"save", "done"}

RunEnded == pc = "done" /\ rebalance_dates # <<>>

\* C1: once a holding period has been processed, the history holds a snapshot
\* for every business day of its window, whatever branch each day or the
\* rebalance took, a rebalance with an empty fundamentals table included.
C1_SnapshotEveryBusinessDay ==
    \A j \in 1..Len(rebalance_dates) :
        PeriodComplete(j) => PeriodDays(j) \subseteq HistoryDates

C10_RunEndsWithHistory ==
    RunEnded => portfolio_history # <<>> /\ output_written

SumsToOne(w) == SumOver(w, DOMAIN w) = One

Within(w, lo, hi) == \A t \in DOMAIN w : Leq(lo, w[t]) /\ Leq(w[t], hi)

CountTimes(x, n) == Mul(x, Int2Rat(n))

\* C3 as stated: for N >= 1 selected tickers and bounds with min*N <= 1, the
\* target weights computed at the rebalance sum to 1 and each lies in [min, max];
\* stated here for max > 0, where it already fails.
C3_WeightsSumToOneWithinBounds ==
    (/\ pc = "execute"
     /\ Lt(Zero, args.max_alloc_asset)
     /\ Leq(CountTimes(args.min_alloc_asset, Len(selected_tickers)), One)) =>
        /\ DOMAIN target_weights = Range(selected_tickers)
        /\ SumsToOne(target_weights)
        /\ Within(target_weights, args.min_alloc_asset, args.max_alloc_asset)

\* C3 amended: the same, for bounds that also satisfy max*N >= 1 (otherwise no
\* weights summing to 1 fit under max).
C3_WeightsSumToOneWithinFeasibleBounds ==
    (/\ pc = "execute"
     /\ Leq(CountTimes(args.min_alloc_asset, Len(selected_tickers)), One)
     /\ Leq(One, CountTimes(args.max_alloc_asset, Len(selected_tickers)))) =>
        /\ DOMAIN target_weights = Range(selected_tickers)
        /\ SumsToOne(target_weights)
        /\ Within(target_weights, args.min_alloc_asset, args.max_alloc_asset)

C3_Witness ==
    /\ pc = "execute"
    /\ Len(selected_tickers) = 3
    /\ args.min_alloc_asset = Rat(1, 5)
    /\ args.max_alloc_asset = Rat(1, 2)
    /\ SumsToOne(target_weights)
    /\ Within(target_weights, args.min_alloc_asset, args.max_alloc_asset)

\* floor(1/m) for m > 0, from its defining inequalities
FloorOfInverse(m, limit) ==
    CHOOSE k \in 0..limit : Leq(CountTimes(m, k), One) /\ Lt(One, CountTimes(m, k + 1))

\* C4 as stated: when min*N > 1 the allocation keeps exactly the first
\* floor(1/min) tickers in selection order, and the weights computed for them
\* sum to 1 with each in [min, max].
C4_ShrinkKeepsPrefixWithinBounds ==
    [][(/\ pc = "allocate"
        /\ Lt(One, CountTimes(args.min_alloc_asset, Len(selected_tickers)))) =>
          LET k == FloorOfInverse(args.min_alloc_asset, Len(selected_tickers))
          IN  /\ selected_tickers' = SubSeq(selected_tickers, 1, k)
              /\ DOMAIN target_weights' = Range(selected_tickers')
              /\ SumsToOne(target_weights')
              /\ Within(target_weights', args.min_alloc_asset, args.max_alloc_asset)
      ]_vars

\* C4 amended: when min*N > 1 the allocation keeps exactly the first
\* k = floor(1/min) tickers in selection order, the weights computed for them
\* sum to 1 and each is at least min; each is at most max provided max*k >= 1.
C4_ShrinkKeepsPrefixFeasibleBounds ==
    [][(/\ pc = "allocate"
        /\ Lt(One, CountTimes(args.min_alloc_asset, Len(selected_tickers)))) =>
          LET k == FloorOfInverse(args.min_alloc_asset, Len(selected_tickers))
          IN  /\ selected_tickers' = SubSeq(selected_tickers, 1, k)
              /\ DOMAIN target_weights' = Range(selected_tickers')
              /\ SumsToOne(target_weights')
              /\ Within(target_weights', args.min_alloc_asset, One)
              /\ Leq(One, CountTimes(args.max_alloc_asset, k))
                    => Within(target_weights', args.min_alloc_asset,
                              args.max_alloc_asset)
      ]_vars

C4_Witness ==
    /\ pc = "execute"
    /\ last_step = "weights_shrunk"
    /\ Len(selected_tickers) = 3
    /\ args.min_alloc_asset = Rat(3, 10)
    /\ SumsToOne(target_weights)
    /\ Within(target_weights, args.min_alloc_asset, args.max_alloc_asset)

\* what the holdings cost at their entry prices
HoldingsCost(h) ==
    SumOver([t \in DOMAIN h |-> Mul(h[t].shares, h[t].price_at_buy)], DOMAIN h)

\* C5: a rebalance that installs new holdings leaves the portfolio value as it
\* was, and the new holdings' shares x entry price sum to that value.
C5_RebalanceValuePreserving ==
    [][(pc = "execute" /\ last_step' \in {"installed", "installed_partial"}) =>
          /\ current_portfolio_value' = current_portfolio_value
          /\ HoldingsCost(current_holdings') = current_portfolio_value
      ]_vars

LastSnapshot == portfolio_history[Len(portfolio_history)]

\* the last snapshot is of a day of the current period that had a price row
LastDayHadRow ==
    /\ pc = "simulate"
    /\ portfolio_history # <<>>
    /\ DOMAIN current_holdings # {}
    /\ LastSnapshot.date \in DOMAIN daily_prices_df

\* the price of ticker t most recently recorded before day d: the latest earlier
\* price of the period's table, else the one in the snapshot before the last
RecordedPrice(t, d) ==
    LET earlier == {e \in DOMAIN daily_prices_df : e < d /\ daily_prices_df[e][t] # NULL}
        n == Len(portfolio_history)
    IN  IF earlier # {}
        THEN daily_prices_df[CHOOSE e \in earlier : \A f \in earlier : f <= e][t]
        ELSE IF /\ n >= 2
                /\ t \in DOMAIN portfolio_history[n - 1].holdings
                /\ "current_price" \in DOMAIN portfolio_history[n - 1].holdings[t]
             THEN portfolio_history[n - 1].holdings[t].current_price
             ELSE NULL

\* that day's price when present, otherwise the most recently recorded one
PriceOnLastDay(t) ==
    LET d == LastSnapshot.date
    IN  IF daily_prices_df[d][t] # NULL THEN daily_prices_df[d][t]
        ELSE RecordedPrice(t, d)

ValuesOfLast(n) ==
    [k \in 1..n |-> portfolio_history[Len(portfolio_history) - n + k].portfolio_value]

\* 100 shares of A bought at 10, then the prices 10, 11, missing, 12 on the four
\* days of the period (missing: a null price, or no row at all)
ExampleOfC6 ==
    /\ pc = "simulate"
    /\ rebalance_dates = <<33>>
    /\ sim_date > 36
    /\ DOMAIN current_holdings = {"A"}
    /\ current_holdings["A"].shares = Int2Rat(100)
    /\ {33, 34, 36} \subseteq DOMAIN daily_prices_df
    /\ daily_prices_df[33]["A"] = Int2Rat(10)
    /\ daily_prices_df[34]["A"] = Int2Rat(11)
    /\ 35 \in DOMAIN daily_prices_df => daily_prices_df[35]["A"] = NULL
    /\ daily_prices_df[36]["A"] = Int2Rat(12)

\* C6: on a business day with a price row on which every held ticker has that
\* day's price or a most recently recorded one, the portfolio value is the sum
\* over the held tickers of shares x that price; and 100 shares with the
\* prices 10, 11, missing, 12 give the values 1000, 1100, 1100, 1200.
C6_ValueIsSharesTimesPrice ==
    /\ (LastDayHadRow /\ \A t \in DOMAIN current_holdings : PriceOnLastDay(t) # NULL) =>
          LET total == SumOver([t \in DOMAIN current_holdings |->
                                   Mul(current_holdings[t].shares, PriceOnLastDay(t))],
                               DOMAIN current_holdings)
          IN  /\ LastSnapshot.portfolio_value = total
              /\ current_portfolio_value = total
    /\ ExampleOfC6 =>
          ValuesOfLast(4) = <<Int2Rat(1000), Int2Rat(1100), Int2Rat(1100), Int2Rat(1200)>>

C6_Witness ==
    /\ ExampleOfC6
    /\ 35 \in DOMAIN daily_prices_df
    /\ ValuesOfLast(4) = <<Int2Rat(1000), Int2Rat(1100), Int2Rat(1100), Int2Rat(1200)>>

\* C7: in a holding period with empty holdings every snapshot of the period
\* carries the value the portfolio had when the period began, and the running
\* value stays that value through the end of the period.
C7_CashValueConstant ==
    (pc = "simulate" /\ DOMAIN current_holdings = {}) =>
        /\ current_portfolio_value = entry_value
        /\ \A k \in DOMAIN portfolio_history :
              portfolio_history[k].date >= rebalance_dates[i] =>
                  /\ portfolio_history[k].portfolio_value = entry_value
                  /\ DOMAIN portfolio_history[k].holdings = {}

C7_Witness ==
    /\ pc = "simulate"
    /\ DOMAIN current_holdings = {}
    /\ i = 2
    /\ sim_date > EndSimPeriod
    /\ entry_value # args.initial_portfolio_value
    /\ Cardinality({k \in DOMAIN portfolio_history :
                       portfolio_history[k].date >= rebalance_dates[i]}) = 2

\* d is the first Monday-to-Friday day of a month that starts a period of freq
IsPeriodStart(d, freq) ==
    \E m \in DOMAIN MonthLengths :
        /\ MonthStartDay(m) <= d
        /\ d < MonthStartDay(m) + MonthLengths[m]
        /\ Weekday(d) \notin {5, 6}
        /\ \A e \in MonthStartDay(m)..(d - 1) : Weekday(e) \in {5, 6}
        /\ CASE freq = "monthly"   -> TRUE
             [] freq = "quarterly" -> m \in {1, 4, 7, 10, 13}
             [] freq = "annually"  -> m \in {1, 13}

\* C8: for every start, end and frequency the rebalance dates all lie in
\* [start, end], are strictly increasing, and there are none when no period
\* start falls in [start, end].
C8_RebalanceDatesInRangeIncreasing ==
    pc # "schedule" =>
        /\ \A k \in DOMAIN rebalance_dates :
              /\ args.start_date_backtest <= rebalance_dates[k]
              /\ rebalance_dates[k] <= args.end_date_backtest
        /\ \A k \in 1..Len(rebalance_dates) - 1 : rebalance_dates[k] < rebalance_dates[k + 1]
        /\ (~\E d \in args.start_date_backtest..args.end_date_backtest :
                IsPeriodStart(d, args.rebalance_frequency))
              => rebalance_dates = <<>>

C8_Witness ==
    /\ pc = "rebalance"
    /\ args.rebalance_frequency = "quarterly"
    /\ Len(rebalance_dates) = 2
    /\ args.start_date_backtest < rebalance_dates[1]
    /\ rebalance_dates[2] < args.end_date_backtest

\* the records that pass the two filters
Passing ==
    {r \in Range(df_fundamental) :
        /\ args.min_piotroski_score = 0 \/ r.Piotroski_F_Score >= args.min_piotroski_score
        /\ args.min_quant_value_score = Zero
              \/ Leq(args.min_quant_value_score, r.Quant_Value_Score)}

ScoreOf(t) == (CHOOSE r \in Range(df_fundamental) : r.ticker = t).Quant_Value_Score

Smallest(S) == CHOOSE x \in S : \A y \in S : x <= y

\* C9: the selected list holds records that pass the filters, without
\* repetition, in descending value-score order; it has as many as pass, cut to
\* top-N when top-N > 0 and to max-assets; and no passing record left out has
\* a higher value score than a selected one.  So top-N = 1 selects one ticker
\* of the highest value score among those passing.
C9_SelectionIsFilteredRankedTruncated ==
    pc = "allocate" =>
        /\ Range(selected_tickers) \subseteq {r.ticker : r \in Passing}
        /\ \A j, k \in DOMAIN selected_tickers : j # k => selected_tickers[j] # selected_tickers[k]
        /\ Len(selected_tickers) =
               Smallest({Cardinality(Passing), args.max_selected_assets}
                        \cup (IF args.top_n_quant_value > 0
                              THEN {args.top_n_quant_value} ELSE {}))
        /\ \A k \in 1..Len(selected_tickers) - 1 :
               Leq(ScoreOf(selected_tickers[k + 1]), ScoreOf(selected_tickers[k]))
        /\ \A r \in Passing : \A k \in DOMAIN selected_tickers :
               r.ticker \notin Range(selected_tickers)
                  => Leq(r.Quant_Value_Score, ScoreOf(selected_tickers[k]))

\* three candidates of which the first fails the quality filter and the best of
\* the other two comes last in the table; top-N = 1 picks that one
C9_Witness ==
    /\ pc = "allocate"
    /\ Len(df_fundamental) = 3
    /\ args.min_piotroski_score = 6
    /\ args.top_n_quant_value = 1
    /\ args.max_selected_assets = 10
    /\ df_fundamental[1].Piotroski_F_Score = 3
    /\ df_fundamental[1].Quant_Value_Score = One
    /\ df_fundamental[2].Quant_Value_Score = Rat(1, 2)
    /\ df_fundamental[3].Quant_Value_Score = One
    /\ Cardinality(Passing) = 2
    /\ selected_tickers = <<df_fundamental[3].ticker>>

\* the entry-price lookup of the rebalance in progress came back without any
\* usable price
LookupCameBackEmpty(px) == \A t \in DOMAIN px : px[t] = NULL

\* C11: if the entry-price lookup at a rebalance yields no usable price at all
\* (empty table or all prices null), the rebalance changes nothing: holdings
\* and portfolio value after it are exactly those of the state before it.
C11_NoUsablePriceChangesNothing ==
    [][(pc = "execute" /\ LookupCameBackEmpty(prices_on_rebalance_date'))
          => /\ pc' = "begin_period"
             /\ current_holdings' = prior_state.holdings
             /\ current_portfolio_value' = prior_state.value]_vars

\* a second rebalance whose lookup failed while positions were held
C11_Witness ==
    /\ pc = "begin_period"
    /\ i = 2
    /\ DOMAIN prices_on_rebalance_date # {}
    /\ LookupCameBackEmpty(prices_on_rebalance_date)
    /\ DOMAIN current_holdings # {}
    /\ current_holdings = prior_state.holdings

\* the selected tickers the lookup of the rebalance in progress priced
PricedOf(tickers, px) == {t \in Range(tickers) : px[t] # NULL}

\* C12: if some but not all target tickers lack an entry price, those tickers
\* are dropped and the weights are recomputed over the remaining tickers only,
\* so the new holdings contain exactly the priced tickers with weights summing
\* to 1; if no ticker remains, the portfolio becomes all cash: holdings empty
\* and portfolio value unchanged.
C12_PartialPricesDropAndRenormalise ==
    [][(/\ pc = "execute"
        /\ ~LookupCameBackEmpty(prices_on_rebalance_date')
        /\ \E t \in Range(selected_tickers) : prices_on_rebalance_date'[t] = NULL)
          => LET priced == PricedOf(selected_tickers, prices_on_rebalance_date')
             IN  IF priced # {}
                 THEN /\ DOMAIN current_holdings' = priced
                      /\ SumOver([t \in priced |-> current_holdings'[t].weight],
                                 priced) = One
                 ELSE /\ current_holdings' = EmptyFn
                      /\ current_portfolio_value' = current_portfolio_value]_vars

\* the snapshot of day d shows the tickers in S
DayRecordedWith(d, S) ==
    \E k \in DOMAIN portfolio_history :
        /\ portfolio_history[k].date = d
        /\ DOMAIN portfolio_history[k].holdings = S

\* C13: an empty selection at a rebalance is not an error: the run continues,
\* holdings and portfolio value are left exactly as they were before that
\* rebalance, and the following holding period is still simulated day by day
\* with those holdings.
C13_EmptySelectionKeepsPortfolio ==
    (rebalance_outcome = "empty_selection" /\ pc \in {"begin_period", "simulate"})
        => /\ current_holdings = prior_state.holdings
           /\ pc = "begin_period" => current_portfolio_value = prior_state.value
           /\ pc = "simulate" =>
                /\ entry_value = prior_state.value
                /\ \A d \in BusinessDays(rebalance_dates[i], sim_date - 1) :
                       DayRecordedWith(d, DOMAIN prior_state.holdings)

\* the holding period after a second rebalance that selected nothing has been
\* simulated to its end with the positions of the first
C13_Witness ==
    /\ rebalance_outcome = "empty_selection"
    /\ pc = "simulate"
    /\ i = 2
    /\ sim_date > EndSimPeriod
    /\ DOMAIN current_holdings # {}
    /\ current_portfolio_value # prior_state.value

\* the held tickers that had neither a price (after the forward fill) nor a
\* price in the snapshot before, on the day that made history hist' from hist
Unpriceable(df, d, hist) ==
    {t \in DOMAIN current_holdings :
        /\ \A e \in DOMAIN df : e <= d => df[e][t] = NULL
        /\ \/ hist = <<>>
           \/ t \notin DOMAIN hist[Len(hist)].holdings
           \/ "current_price" \notin DOMAIN hist[Len(hist)].holdings[t]}

\* C14: on a business day where some held ticker has neither a price for that
\* day nor a fallback price, the recorded portfolio value is the previous
\* snapshot's total portfolio value (or the running value from before when the
\* history is still empty); it is never the sum over the tickers that could be
\* priced.
C14_UnpriceableDayCopiesPreviousValue ==
    [][(/\ pc = "simulate"
        /\ sim_date \in DOMAIN daily_prices_df'
        /\ sim_date \notin DOMAIN daily_prices_df
        /\ Unpriceable(daily_prices_df', sim_date, portfolio_history) # {})
          => /\ Len(portfolio_history') = Len(portfolio_history) + 1
             /\ portfolio_history'[Len(portfolio_history')].date = sim_date
             /\ portfolio_history'[Len(portfolio_history')].portfolio_value =
                    IF portfolio_history # <<>>
                    THEN portfolio_history[Len(portfolio_history)].portfolio_value
                    ELSE current_portfolio_value]_vars

\* a day on which one of two held tickers had a price and the other had none,
\* recorded with the value of the snapshot before
C14_Witness ==
    /\ last_step = "day_invalid"
    /\ Len(portfolio_history) >= 2
    /\ Cardinality(DOMAIN current_holdings) = 2
    /\ \E t \in DOMAIN current_holdings :
           daily_prices_df[LastSnapshot.date][t] # NULL
    /\ \E t \in DOMAIN current_holdings :
           \A e \in DOMAIN daily_prices_df : daily_prices_df[e][t] = NULL
    /\ LastSnapshot.portfolio_value =
           portfolio_history[Len(portfolio_history) - 1].portfolio_value

\* the step simulates a business day of a period with holdings for which the
\* price table has no row
DayWithoutRow ==
    /\ pc = "simulate"
    /\ DOMAIN current_holdings # {}
    /\ sim_date' # sim_date
    /\ sim_date \notin DOMAIN daily_prices_df'

\* the step appends one snapshot for the day, showing the holdings unchanged
AppendsDayWithHoldings ==
    /\ Len(portfolio_history') = Len(portfolio_history) + 1
    /\ portfolio_history'[Len(portfolio_history')].date = sim_date
    /\ portfolio_history'[Len(portfolio_history')].holdings = current_holdings
    /\ current_holdings' = current_holdings

\* C15 as stated: on a business day of a holding period with non-empty
\* holdings for which the price table has no row at all, a snapshot is still
\* appended for that day, its portfolio value equals the previous snapshot's
\* recorded value, and the holdings are unchanged.
C15_NoRowDayCopiesPreviousSnapshot ==
    [][DayWithoutRow
          => /\ AppendsDayWithHoldings
             /\ portfolio_history # <<>>
             /\ portfolio_history'[Len(portfolio_history')].portfolio_value =
                    portfolio_history[Len(portfolio_history)].portfolio_value]_vars

\* C15, amended: on such a day a snapshot is still appended for that day and
\* the holdings are unchanged; its portfolio value equals the previous
\* snapshot's recorded value, or the running portfolio value when the history
\* is still empty (the first day of the first holding period).
C15_NoRowDayCopiesPreviousOrRunningValue ==
    [][DayWithoutRow
          => /\ AppendsDayWithHoldings
             /\ portfolio_history'[Len(portfolio_history')].portfolio_value =
                    IF portfolio_history # <<>>
                    THEN portfolio_history[Len(portfolio_history)].portfolio_value
                    ELSE current_portfolio_value]_vars

\* a day without a row was recorded after a day whose prices had moved the
\* value away from the value the period began with
C15_Witness ==
    /\ last_step = "day_no_row"
    /\ Len(portfolio_history) >= 2
    /\ LastSnapshot.date \notin DOMAIN daily_prices_df
    /\ LastSnapshot.holdings = current_holdings
    /\ LastSnapshot.portfolio_value =
           portfolio_history[Len(portfolio_history) - 1].portfolio_value
    /\ LastSnapshot.portfolio_value # entry_value

\* holdings h are the executed weight mapping w bought at prices px with value v
FreshlyBought(h, w, px, v) ==
    /\ DOMAIN h = DOMAIN w
    /\ \A t \in DOMAIN h :
          /\ h[t].weight = w[t]
          /\ h[t].price_at_buy = px[t]
          /\ h[t].shares = Div(Mul(v, w[t]), px[t])

\* the holdings a finished rebalance leaves: the old map, nothing, or the
\* executed weight mapping bought afresh
ReplacedWholesale ==
    \/ current_holdings = prior_state.holdings
    \/ current_holdings = EmptyFn
    \/ /\ DOMAIN prices_on_rebalance_date # {}
       /\ FreshlyBought(current_holdings, target_weights, prices_on_rebalance_date,
                        prior_state.value)

\* a step outside the allocation and execution of a rebalance leaves the
\* holdings alone
HoldingsFixedOutsideRebalance ==
    (pc \notin {"allocate", "execute"}) => (current_holdings' = current_holdings)

\* C16: holdings are replaced atomically: after any rebalance the holdings map
\* is exactly the map held before the rebalance, or empty, or exactly the
\* tickers of the executed weight mapping with freshly computed shares (never
\* old positions mixed with new ones), and the holdings do not change between
\* rebalances.
C16_HoldingsReplacedAtomically ==
    [](pc = "begin_period" => ReplacedWholesale) /\ [][HoldingsFixedOutsideRebalance]_vars

\* a second rebalance replaced the two positions of the first by one new
\* position in one of them
C16_Witness ==
    /\ pc = "begin_period"
    /\ i = 2
    /\ Cardinality(DOMAIN prior_state.holdings) = 2
    /\ Cardinality(DOMAIN current_holdings) = 1
    /\ DOMAIN current_holdings = DOMAIN target_weights
    /\ current_holdings # prior_state.holdings

\* C17: the history is append-only: at every step of the run the history is
\* the previous history with zero or more snapshots added at its end; no
\* snapshot already appended is removed or has its date, value or holdings
\* detail changed, also when a later rebalance replaces the holdings.
C17_HistoryAppendOnly ==
    [][/\ Len(portfolio_history') >= Len(portfolio_history)
       /\ SubSeq(portfolio_history', 1, Len(portfolio_history)) = portfolio_history]_vars

\* the history holds snapshots of the first holding period, a day without a
\* row among them, after the second rebalance has replaced the holdings
C17_Witness ==
    /\ i = 2
    /\ pc = "simulate"
    /\ last_step = "day_no_row"
    /\ Len(portfolio_history) > Cardinality(PeriodDays(1))
    /\ DOMAIN portfolio_history[1].holdings # DOMAIN current_holdings
    /\ DOMAIN portfolio_history[1].holdings # {}
    /\ portfolio_history[1].date = rebalance_dates[1]

\* the scheduler has returned, and returned no date
NoRebalanceDate == pc # "schedule" /\ rebalance_dates = <<>>

\* no provider has returned anything and nothing was recorded or written
NothingFetchedOrRecorded ==
    /\ portfolio_history = <<>>
    /\ ~output_written
    /\ df_fundamental = <<>>
    /\ prices_on_rebalance_date = EmptyFn
    /\ daily_prices_df = EmptyFn
    /\ current_holdings = EmptyFn

\* C18: if the scheduler returns no rebalance date, the engine terminates
\* without an error, without calling the fundamentals or price providers, and
\* with an empty history (no snapshot is recorded and no result file written).
C18_NoRebalanceDateEndsEmpty ==
    [](NoRebalanceDate => (pc = "done" /\ NothingFetchedOrRecorded))
        /\ [][~NoRebalanceDate]_vars

\* the run over 2020-02-04..2020-02-20, which holds no first business day of
\* a month, has ended
C18_Witness ==
    /\ NoRebalanceDate
    /\ pc = "done"
    /\ args.start_date_backtest < args.end_date_backtest
    /\ last_step = "no_dates"

\* the rebalance in progress has computed target weights (lines 239-245), and
\* recomputed them if tickers were dropped (lines 275-278)
WeightsComputed ==
    \/ pc = "execute"
    \/ /\ pc = "begin_period"
       /\ rebalance_outcome \in {"no_entry_prices", "installed", "installed_partial"}

MinFeasible(n) == Leq(Mul(args.min_alloc_asset, Int2Rat(n)), One)

\* C20: after the tickers without an entry price are dropped from a list that
\* satisfied min*n <= 1, the remaining count n' still satisfies min*n' <= 1:
\* the infeasibility that triggers the shrink cannot recur after a drop.
C20_DropKeepsMinFeasible ==
    [][(pc = "execute" /\ MinFeasible(Len(selected_tickers)))
          => /\ Len(selected_tickers') <= Len(selected_tickers)
             /\ MinFeasible(Len(selected_tickers'))]_vars

\* with min = 3/10 a list shrunk to its three feasible tickers lost one more
\* to a missing price
C20_Witness ==
    /\ last_step = "installed_partial"
    /\ args.min_alloc_asset = Rat(3, 10)
    /\ Len(selected_tickers) = 2
    /\ Cardinality({t \in DOMAIN prices_on_rebalance_date :
                       prices_on_rebalance_date[t] # NULL}) >= 2
    /\ DOMAIN current_holdings = Range(selected_tickers)

\* C21: immediately after every snapshot appended to the history, that
\* snapshot's portfolio value equals the running portfolio value carried by the
\* simulation loop; the recorded series and the state carried into the next
\* rebalance never diverge.
C21_SnapshotValueIsRunningValue ==
    [](portfolio_history # <<>> => LastSnapshot.portfolio_value = current_portfolio_value)
        /\ [][Len(portfolio_history') > Len(portfolio_history)
                 => portfolio_history'[Len(portfolio_history')].portfolio_value =
                        current_portfolio_value']_vars

\* a day without a row was recorded after prices had moved the value, and the
\* copied value is the running one
C21_Witness ==
    /\ last_step = "day_no_row"
    /\ Len(portfolio_history) >= 2
    /\ LastSnapshot.date \notin DOMAIN daily_prices_df
    /\ current_portfolio_value # entry_value
    /\ LastSnapshot.portfolio_value = current_portfolio_value

\* C22: the dates of the snapshots in the history are strictly increasing in
\* append order, so no date is recorded twice, across all holding periods and
\* including the snapshot appended when a rebalance is skipped for empty
\* fundamentals.
C22_HistoryDatesStrictlyIncreasing ==
    \A k \in 1..Len(portfolio_history) - 1 :
        portfolio_history[k].date < portfolio_history[k + 1].date

\* a run of three rebalances ended: positions were bought at the first, the
\* second was skipped for empty fundamentals and left its snapshot, and the
\* third holding period was recorded after it
C22_Witness ==
    /\ pc = "done"
    /\ Len(rebalance_dates) = 3
    /\ skipped = {2}
    /\ \E k \in 2..Len(portfolio_history) - 1 :
          /\ portfolio_history[k].date = rebalance_dates[2]
          /\ portfolio_history[k - 1].date = rebalance_dates[2] - 3
          /\ portfolio_history[k + 1].date = rebalance_dates[3]
    /\ LastSnapshot.date = args.end_date_backtest

\* C23: for every configuration accepted by the validation (0 <= min <= max
\* <= 1) and every non-empty selection, the shrink step leaves at least one
\* ticker (floor(1/min) >= 1 whenever min*N > 1), so the branch that goes to
\* cash because no ticker remains after the minimum-allocation adjustment is
\* never taken.
C23_ShrinkLeavesATicker ==
    [](last_step # "none_after_shrink")
        /\ [][(pc = "allocate" /\ selected_tickers # <<>>)
                 => /\ selected_tickers' # <<>>
                    /\ pc' = "execute"
                    /\ (~MinFeasible(Len(selected_tickers))
                           => Len(selected_tickers') = FloorOfInverse(args.min_alloc_asset,
                                                                      MaxSelected + 1))]_vars

\* the tightest accepted minimum, min = max = 1, cut a longer selection to its
\* first ticker
C23_Witness ==
    /\ last_step = "weights_shrunk"
    /\ args.min_alloc_asset = One
    /\ args.max_alloc_asset = One
    /\ Len(selected_tickers) = 1
    /\ pc = "execute"

====
